---- MODULE Spec2Model ----
(***************************************************************************)
(* A model of the Chakra scheduler (romilbhardwaj/chakra):                 *)
(*   - the placement policies of chakra/policies.py, as operators;         *)
(*   - the admission loop of ChakraScheduler.run / process_event /         *)
(*     scheduler (chakra/scheduler.py), one action per step of the loop;   *)
(*   - the ClusterStateUpdater thread, which builds a fresh mapping every  *)
(*     polling cycle and publishes it by one assignment.                   *)
(*                                                                         *)
(* Five specifications share the variables:                                *)
(*   SpecPolicy    get_allocation applied to every bounded input;          *)
(*   Spec          the admission loop, the API server and the updater;     *)
(*   SpecLive      Spec with both threads scheduled fairly;                *)
(*   SpecSnapshot  the updater and one placement decision, interleaved at  *)
(*                 the grain of single dictionary reads and writes;        *)
(*   SpecUpdater   get_cluster_state on objects with quantity strings,     *)
(*                 one node per step.                                      *)
(***************************************************************************)
EXTENDS Integers, Sequences, FiniteSets, TLC

(***************************************************************************)
(* Bounds of the model.                                                    *)
(***************************************************************************)
\* largest resource quantity (node availability and pod request)
MaxQty == 2

\* the node names of the cluster
Nodes == {"n1", "n2"}

\* availability can be negative: allocatable - used is not clamped
\* (scheduler.py:108-110)
Qty == (0 - 1) .. MaxQty

(***************************************************************************)
(* Resource keys.                                                          *)
(***************************************************************************)
\* the keys a pod's resources.requests uses (Kubernetes resource names), in
\* the order the API serialises them
RequestKeys == <<"cpu", "memory", "nvidia.com/gpu">>

\* the keys of a node's entry as ClusterStateUpdater publishes it
UpdaterKeys == {"cpu", "memory", "gpu"}

\* the keys of a node's entry as the policy's docstring and tests give it
DocKeys == {"cpu", "mem", "nvidia.com/gpu"}

\* the values BestfitBinpackPolicy.__init__ accepts
BinpackingResources == {"cpu", "memory", "nvidia.com/gpu"}

(***************************************************************************)
(* Python values.                                                          *)
(***************************************************************************)
\* a request quantity is the value stored in resources.requests: a number
\* (written here as its decimal text) or a suffixed Kubernetes quantity
SuffixedQuantity == "500m"

NumericTokens == {ToString(n) : n \in 0 .. MaxQty}

RequestTokens == NumericTokens \cup {SuffixedQuantity}

\* float(x) succeeds on a number or on the decimal text of one
FloatOk(tok) == tok \in NumericTokens

\* float(x) where it succeeds
Float(tok) == CHOOSE n \in 0 .. MaxQty : ToString(n) = tok

\* what a call produces: a returned value or a raised exception
Return(v) == [kind |-> "return", val |-> v]

Raise(e) == [kind |-> "raise", val |-> e]

NotCalled == [kind |-> "none", val |-> ""]

\* the exceptions get_allocation can raise
ErrUnbound == "UnboundLocalError: pod_resource_req"

ErrNoCpu == "Pod does not have a resource request for cpu"

ErrNoNode == "No node has enough resources to fit the pod"

ErrFloat == "ValueError: could not convert string to float"

ErrNoneMinus == "TypeError: unsupported operand type(s) for -: NoneType and float"

ErrEmptyChoice == "IndexError: Cannot choose from an empty sequence"

(***************************************************************************)
(* Pods and cluster states.                                                *)
(***************************************************************************)
\* The part of a V1Pod the policies read: containers[0].resources.requests,
\* either None (has_requests = FALSE) or a dict from request keys to values.
\* An empty dict is falsy like None.
RequestDicts ==
    UNION {[ks -> RequestTokens] : ks \in SUBSET {RequestKeys[i] : i \in 1 .. Len(RequestKeys)}}

PodSpecs ==
    {[has_requests |-> TRUE, requests |-> d] : d \in RequestDicts}
        \cup {[has_requests |-> FALSE, requests |-> << >>]}

\* the keys of a requests dict in iteration order
RECURSIVE KeysFrom(_, _)
KeysFrom(d, i) ==
    IF i > Len(RequestKeys) THEN << >>
    ELSE (IF RequestKeys[i] \in DOMAIN d THEN <<RequestKeys[i]>> ELSE << >>)
             \o KeysFrom(d, i + 1)

Keys(d) == KeysFrom(d, 1)

\* dict.get(key, default)
Get(d, key, default) == IF key \in DOMAIN d THEN d[key] ELSE default

\* A cluster state is a Python dict {node: {key: quantity}}: `order' is its
\* iteration (insertion) order, `res' its items.  `none' is the value None
\* that ChakraScheduler.__init__ stores before the first publication.
NoClusterState == [none |-> TRUE, order |-> << >>, res |-> << >>]

\* the sequences of distinct nodes
NodeOrders ==
    {s \in UNION {[1 .. n -> Nodes] : n \in 0 .. Cardinality(Nodes)} :
        \A i, j \in DOMAIN s : i # j => s[i] # s[j]}

NodeSet(order) == {order[i] : i \in DOMAIN order}

\* the quantities the inputs of SpecPolicy give to a key of a node's entry:
\* every quantity for cpu, the extremes (and 1) for the other keys
InputQty(key) ==
    IF key = "cpu" THEN Qty
    ELSE IF key \in {"memory", "mem"} THEN {0 - 1, 1, MaxQty}
    ELSE {0 - 1, MaxQty}

NodeEntries(keys) == {e \in [keys -> Qty] : \A k \in keys : e[k] \in InputQty(k)}

ClusterStatesOver(keys) ==
    UNION {{[none |-> FALSE, order |-> o, res |-> r] :
                r \in [NodeSet(o) -> NodeEntries(keys)]} : o \in NodeOrders}

(***************************************************************************)
(* chakra/policies.py                                                      *)
(***************************************************************************)
\* all(float(resources.get(resource, 0)) >= float(requests.get(resource, 0))
\*     for resource in requests.keys())
\* evaluated key by key, stopping at the first False; float() of a suffixed
\* quantity raises.  The result is "true", "false" or "raise".
RECURSIVE AllFitFrom(_, _, _, _)
AllFitFrom(resources, requests, keys, i) ==
    IF i > Len(keys) THEN "true"
    ELSE IF ~FloatOk(requests[keys[i]]) THEN "raise"
    ELSE IF Get(resources, keys[i], 0) >= Float(requests[keys[i]])
         THEN AllFitFrom(resources, requests, keys, i + 1)
    ELSE "false"

\* a feasibility test that reads only the first requested key
AllFitFirstKey(resources, requests) ==
    AllFitFrom(resources, requests, SubSeq(Keys(requests), 1, 1), 1)

\* no feasibility test at all (what RandomPolicy does)
AllFitUnchecked(resources, requests) ==
    IF \A k \in DOMAIN requests : FloatOk(requests[k]) THEN "true" ELSE "raise"

AllFit(resources, requests) == AllFitFrom(resources, requests, Keys(requests), 1)

\* a comparison that lets a later node with an equal remainder win
BetterOrEqual(remaining_resource, best_fit_node, best_fit_node_remaining) ==
    /\ remaining_resource >= 0
    /\ (best_fit_node = "" \/ remaining_resource <= best_fit_node_remaining)

\* remaining_resource >= 0 and (best_fit_node is None or
\*                              remaining_resource < best_fit_node_remaining)
Better(remaining_resource, best_fit_node, best_fit_node_remaining) ==
    /\ remaining_resource >= 0
    /\ (best_fit_node = "" \/ remaining_resource < best_fit_node_remaining)

\* an ending that returns best_fit_node even when it is still None
LoopEndNoRaise(best_fit_node) == Return(best_fit_node)

\* if best_fit_node is None: raise ...; return best_fit_node
LoopEnd(best_fit_node) ==
    IF best_fit_node = "" THEN Raise(ErrNoNode) ELSE Return(best_fit_node)

\* the body of `for node, resources in cluster_state.items()', from the
\* i-th node on, with the loop's two locals
RECURSIVE BestFitLoop(_, _, _, _, _, _, _)
BestFitLoop(cs, requests, dim, req, i, best_fit_node, best_fit_node_remaining) ==
    IF i > Len(cs.order)
    THEN LoopEnd(best_fit_node)
    ELSE LET node == cs.order[i]
             resources == cs.res[node]
             fit == AllFit(resources, requests)
         IN  IF fit = "raise" THEN Raise(ErrFloat)
             ELSE IF fit = "false"
                  THEN BestFitLoop(cs, requests, dim, req, i + 1,
                                   best_fit_node, best_fit_node_remaining)
             ELSE IF dim \notin DOMAIN resources THEN Raise(ErrNoneMinus)
             ELSE LET remaining_resource == resources[dim] - req
                  IN  IF Better(remaining_resource, best_fit_node,
                                best_fit_node_remaining)
                      THEN BestFitLoop(cs, requests, dim, req, i + 1,
                                       node, remaining_resource)
                      ELSE BestFitLoop(cs, requests, dim, req, i + 1,
                                       best_fit_node, best_fit_node_remaining)

\* BestfitBinpackPolicy.get_allocation, from the point where pod_resource_req
\* holds the request on the dimension `dim'
BestFitFrom(cs, requests, dim, pod_resource_req) ==
    IF ~FloatOk(pod_resource_req) THEN Raise(ErrFloat)
    ELSE BestFitLoop(cs, requests, dim, Float(pod_resource_req), 1, "", 0)

\* BestfitBinpackPolicy.get_allocation(cluster_state, pod) of a policy
\* constructed with binpacking_resource
BestfitGetAllocation(binpacking_resource, cs, pod) ==
    IF ~(pod.has_requests /\ DOMAIN pod.requests # {})
    THEN Raise(ErrUnbound)
    ELSE IF binpacking_resource \in DOMAIN pod.requests
         THEN BestFitFrom(cs, pod.requests, binpacking_resource,
                          pod.requests[binpacking_resource])
    ELSE IF "cpu" \notin DOMAIN pod.requests THEN Raise(ErrNoCpu)
    ELSE BestFitFrom(cs, pod.requests, "cpu", pod.requests["cpu"])

\* RandomPolicy.get_allocation: the results random.choice can give
RandomGetAllocation(cs) ==
    IF cs.order = << >> THEN {Raise(ErrEmptyChoice)}
    ELSE {Return(n) : n \in NodeSet(cs.order)}

(***************************************************************************)
(* The cluster as the API server holds it.                                 *)
(***************************************************************************)
\* number of watch events the API server emits in a run
MaxEvents == 4

\* constants.SCHEDULER_NAME, the name this instance filters on
SCHEDULER_NAME == "chakra"

\* list_node returns the nodes in this order
NodeList == <<"n1", "n2">>

\* node.status.allocatable of each node
Allocatable ==
    [n \in Nodes |->
        IF n = "n1" THEN [cpu |-> MaxQty, memory |-> MaxQty, gpu |-> 1]
        ELSE [cpu |-> 1, memory |-> MaxQty, gpu |-> 0]]

\* The pods of the namespace: the scheduler each one asks for and the
\* requests of its one container.  p3 asks for another scheduler.
PodNames == {"p1", "p2", "p3"}

PodTable ==
    [p \in PodNames |->
        IF p = "p1"
        THEN [scheduler_name |-> SCHEDULER_NAME,
              spec |-> [has_requests |-> TRUE, requests |-> [cpu |-> "1"]]]
        ELSE IF p = "p2"
        THEN [scheduler_name |-> SCHEDULER_NAME,
              spec |-> [has_requests |-> TRUE,
                        requests |-> [cpu |-> ToString(MaxQty)]]]
        ELSE [scheduler_name |-> "default-scheduler",
              spec |-> [has_requests |-> TRUE, requests |-> [cpu |-> "1"]]]]

\* a pod that does not exist yet, and one that was deleted
Absent == [phase |-> "Absent", node_name |-> ""]

\* the watch event the API server emits for pod p in state st (node_name ""
\* is None)
Event(n, type, p, st) ==
    [seq |-> n, type |-> type, pod |-> p, phase |-> st.phase,
     node_name |-> st.node_name, scheduler_name |-> PodTable[p].scheduler_name]

(***************************************************************************)
(* chakra/scheduler.py: ClusterStateUpdater                                *)
(***************************************************************************)
\* parse_resource_cpu / parse_resource_memory / int() of a request that
\* carries no unit suffix; an absent request defaults to zero
ParseRequest(requests, key) == IF key \in DOMAIN requests THEN Float(requests[key]) ELSE 0

\* the pods get_cluster_state counts against a node: assigned to it, Running
\* or Pending (all pods of the model are in the namespace 'default')
CountedOn(node, ps) ==
    {p \in PodNames : ps[p].node_name = node /\ ps[p].phase \in {"Running", "Pending"}}

RECURSIVE UsedBy(_, _)
UsedBy(podset, key) ==
    IF podset = {} THEN 0
    ELSE LET p == CHOOSE q \in podset : TRUE
         IN  (IF PodTable[p].spec.has_requests /\ DOMAIN PodTable[p].spec.requests # {}
              THEN ParseRequest(PodTable[p].spec.requests, key) ELSE 0)
                 + UsedBy(podset \ {p}, key)

\* available_resources[name] of one node: allocatable minus used, per
\* dimension, not clamped
NodeEntry(n, ps) ==
    [cpu |-> Allocatable[n].cpu - UsedBy(CountedOn(n, ps), "cpu"),
     memory |-> Allocatable[n].memory - UsedBy(CountedOn(n, ps), "memory"),
     gpu |-> Allocatable[n].gpu - UsedBy(CountedOn(n, ps), "nvidia.com/gpu")]

\* get_cluster_state: the dict of every node's entry, in list_node's order
GetClusterState(ps) ==
    [none |-> FALSE,
     order |-> NodeList,
     res |-> [n \in Nodes |-> NodeEntry(n, ps)]]

(***************************************************************************)
(* State.                                                                  *)
(***************************************************************************)
VARIABLES
    policy_kind,          \* the class of ChakraScheduler.policy
    binpacking_resource,  \* BestfitBinpackPolicy.binpacking_resource
    cluster_state,        \* ChakraScheduler.cluster_state
    pc,                   \* where ChakraScheduler.run stands
    waiting_objects,      \* the deque of run
    num_waiting,          \* the length run read at the start of the pass
    i,                    \* the loop variable of the pass
    pods,                 \* API server: phase and node of every pod
    stream,               \* API server: watch events not yet received
    emitted,              \* API server: number of events emitted
    bind_log,             \* history: the binding requests issued, in order
    last_step,            \* history: what the last step of the pass did
    pass_start,           \* history: the deque when the pass started
    attempted,            \* history: the entries popped in the pass
    arg_pod,              \* SpecPolicy: the pod handed to get_allocation
    result,               \* SpecPolicy: what get_allocation produced
    heap,                 \* SpecSnapshot: the dict objects the updater made
    ref,                  \* SpecSnapshot: ChakraScheduler.cluster_state as a
                          \*   reference into heap (0 is None)
    upd,                  \* SpecSnapshot: where the updater's cycle stands
    decision,             \* SpecSnapshot: one get_allocation call in progress
    listings,             \* SpecSnapshot, history: the pod list of each cycle
    namespace,            \* SpecUpdater: ChakraScheduler.namespace
    api,                  \* SpecUpdater: what list_node and
                          \*   list_pod_for_all_namespaces return now
    poll                  \* SpecUpdater: where get_cluster_state stands

vars ==
    <<policy_kind, binpacking_resource, cluster_state, pc, waiting_objects,
      num_waiting, i, pods, stream, emitted, bind_log, last_step, pass_start,
      attempted, arg_pod, result, heap, ref, upd, decision, listings,
      namespace, api, poll>>

poll_vars == <<namespace, api, poll>>

snap_vars == <<heap, ref, upd, decision, listings, poll_vars>>

policy_vars == <<policy_kind, binpacking_resource>>

loop_vars == <<pc, waiting_objects, num_waiting, i>>

api_vars == <<pods, stream, emitted>>

history_vars == <<bind_log, last_step, pass_start, attempted>>

probe_vars == <<arg_pod, result>>

UpdaterIdle == [pc |-> "list", dict |-> 0, idx |-> 0, cycle |-> 0]

NoDecision == [pc |-> "idle", ref |-> 0, pos |-> 0, seen |-> << >>]

\* the updater at grain of nodes, before its first cycle
PollIdle ==
    [pc |-> "list", idx |-> 0, cycle |-> 0, listed |-> << >>, published |-> << >>,
     available_resources |-> [order |-> << >>, res |-> << >>],
     before |-> NoClusterState]

\* the variables of SpecUpdater when another specification runs
PollUnused ==
    /\ namespace = "default"
    /\ api = << >>
    /\ poll = PollIdle

\* the variables of SpecSnapshot when another specification runs
SnapshotUnused ==
    /\ heap = << >>
    /\ ref = 0
    /\ upd = UpdaterIdle
    /\ decision = NoDecision
    /\ listings = << >>

NoStep == [op |-> "none", event |-> Event(0, "", "p1", Absent), alloc |-> NotCalled, bind |-> ""]

(***************************************************************************)
(* SpecPolicy: get_allocation on every bounded input.                      *)
(***************************************************************************)
PolicyInit ==
    /\ policy_kind = "binpack"
    /\ binpacking_resource \in BinpackingResources
    /\ cluster_state \in ClusterStatesOver(UpdaterKeys) \cup ClusterStatesOver(DocKeys)
    /\ arg_pod \in PodSpecs
    /\ result = NotCalled
    /\ pc = "policy"
    /\ waiting_objects = << >>
    /\ num_waiting = 0
    /\ i = 0
    /\ pods = [p \in PodNames |-> Absent]
    /\ stream = << >>
    /\ emitted = 0
    /\ bind_log = << >>
    /\ last_step = NoStep
    /\ pass_start = << >>
    /\ attempted = << >>
    /\ SnapshotUnused
    /\ PollUnused

CallGetAllocation ==
    /\ result = NotCalled
    /\ result' = BestfitGetAllocation(binpacking_resource, cluster_state, arg_pod)
    /\ UNCHANGED <<policy_vars, cluster_state, arg_pod, loop_vars, api_vars,
                   history_vars, snap_vars>>

PolicyNext == CallGetAllocation

SpecPolicy == PolicyInit /\ [][PolicyNext]_vars

(***************************************************************************)
(* The API server: pods come, change and go, and every change is a watch   *)
(* event carrying the pod object as it is at that moment.                  *)
(***************************************************************************)
Emit(type, p, st) ==
    /\ emitted < MaxEvents
    /\ emitted' = emitted + 1
    /\ stream' = Append(stream, Event(emitted + 1, type, p, st))

CreatePod(p) ==
    /\ pods[p].phase = "Absent"
    /\ pods' = [pods EXCEPT ![p] = [phase |-> "Pending", node_name |-> ""]]
    /\ Emit("ADDED", p, pods'[p])

\* a change that leaves phase and node alone (labels, annotations, status
\* conditions)
ModifyPod(p) ==
    /\ pods[p].phase \in {"Pending", "Running"}
    /\ pods' = pods
    /\ Emit("MODIFIED", p, pods[p])

\* the kubelet starts a bound pod
StartPod(p) ==
    /\ pods[p].phase = "Pending"
    /\ pods[p].node_name # ""
    /\ pods' = [pods EXCEPT ![p].phase = "Running"]
    /\ Emit("MODIFIED", p, pods'[p])

DeletePod(p) ==
    /\ pods[p].phase \in {"Pending", "Running"}
    /\ pods' = [pods EXCEPT ![p].phase = "Deleted"]
    /\ Emit("DELETED", p, pods[p])

\* the scheduler a pod asks for, when it is not this one, binds it to a node
\* that has room for it
OtherSchedulerBinds(p) ==
    /\ PodTable[p].scheduler_name # SCHEDULER_NAME
    /\ pods[p].phase = "Pending"
    /\ pods[p].node_name = ""
    /\ \E n \in Nodes :
          /\ NodeEntry(n, pods).cpu >= ParseRequest(PodTable[p].spec.requests, "cpu")
          /\ pods' = [pods EXCEPT ![p].node_name = n]
          /\ Emit("MODIFIED", p, pods'[p])

ApiServer ==
    /\ pc # "crashed"
    /\ \E p \in PodNames :
          \/ CreatePod(p)
          \/ ModifyPod(p)
          \/ StartPod(p)
          \/ DeletePod(p)
          \/ OtherSchedulerBinds(p)
    /\ UNCHANGED <<policy_vars, cluster_state, loop_vars, history_vars, probe_vars,
                   snap_vars>>

(***************************************************************************)
(* chakra/scheduler.py: ClusterStateUpdater.run                            *)
(***************************************************************************)
\* one polling cycle: list, compute, publish by set_cluster_state
UpdaterCycle ==
    /\ pc # "crashed"
    /\ cluster_state' = GetClusterState(pods)
    /\ UNCHANGED <<policy_vars, loop_vars, api_vars, history_vars, probe_vars,
                   snap_vars>>

(***************************************************************************)
(* chakra/scheduler.py: ChakraScheduler                                    *)
(***************************************************************************)
\* a test that forgets the assigned node
EligibleIgnoringNode(event) ==
    /\ event.phase = "Pending"
    /\ event.scheduler_name = SCHEDULER_NAME

\* the test of run on a popped event
Eligible(event) ==
    /\ event.phase = "Pending"
    /\ event.node_name = ""
    /\ event.scheduler_name = SCHEDULER_NAME

\* self.policy.get_allocation(self.cluster_state, pod): the possible results
GetAllocation(p) ==
    IF policy_kind = "random" THEN RandomGetAllocation(cluster_state)
    ELSE {BestfitGetAllocation(binpacking_resource, cluster_state, PodTable[p].spec)}

\* What create_namespaced_binding can do for pod p:
\*   "created"            it returns;
\*   "ValueError_target"  it raises ValueError('Invalid value for `target`,
\*                        must not be `None`') after the server bound the pod;
\*   "ValueError_other"   it raises another ValueError;
\*   "ApiException"       the server refuses (pod gone or already assigned)
\*                        and the body is its JSON Status;
\*   "ApiException_nobody" the request fails with no JSON body (status 0).
Accepted == {"created", "ValueError_target"}

BindOutcomes(p) ==
    (IF pods[p].phase = "Pending" /\ pods[p].node_name = ""
     THEN Accepted ELSE {"ApiException"})
        \cup {"ApiException_nobody", "ValueError_other"}

\* a scheduler() that suppresses every ValueError
AfterBindSuppressingAll(outcome) ==
    IF outcome \in Accepted THEN "ok"
    ELSE IF outcome = "ValueError_other" THEN "ok"
    ELSE IF outcome = "ApiException" THEN "ok"
    ELSE "escapes"

\* What leaves process_event after the binding call: "ok" (it returns None)
\* or "escapes" (an exception propagates into run).
\*   scheduler suppresses the ValueError with the `target' message and
\*     re-raises any other ValueError; process_event does not catch it;
\*   process_event catches ApiException and logs
\*     json.loads(e.body)['message'], which raises when the body is not a
\*     JSON object with a message.
AfterBind(outcome) ==
    IF outcome \in Accepted THEN "ok"
    ELSE IF outcome = "ValueError_other" THEN "escapes"
    ELSE IF outcome = "ApiException" THEN "ok"
    ELSE "escapes"

\* a run that does not wait for the first snapshot
WaitForClusterStateUnguarded ==
    /\ pc = "wait_cluster_state"
    /\ pc' = "watch"
    /\ UNCHANGED <<policy_vars, cluster_state, waiting_objects, num_waiting, i,
                   api_vars, history_vars, probe_vars, snap_vars>>

\* while self.cluster_state is None: sleep
WaitForClusterState ==
    /\ pc = "wait_cluster_state"
    /\ ~cluster_state.none
    /\ pc' = "watch"
    /\ UNCHANGED <<policy_vars, cluster_state, waiting_objects, num_waiting, i,
                   api_vars, history_vars, probe_vars, snap_vars>>

\* a run that puts the new event at the head of the deque
ReceiveEventAtFront ==
    /\ pc = "watch"
    /\ stream # << >>
    /\ waiting_objects' = <<Head(stream)>> \o waiting_objects
    /\ stream' = Tail(stream)
    /\ num_waiting' = Len(waiting_objects')
    /\ i' = 0
    /\ pc' = "drain"
    /\ pass_start' = waiting_objects'
    /\ attempted' = << >>
    /\ UNCHANGED <<policy_vars, cluster_state, pods, emitted, bind_log, last_step,
                   probe_vars, snap_vars>>

\* for new_event in w.stream(...): append it and read the length
ReceiveEvent ==
    /\ pc = "watch"
    /\ stream # << >>
    /\ waiting_objects' = Append(waiting_objects, Head(stream))
    /\ stream' = Tail(stream)
    /\ num_waiting' = Len(waiting_objects')
    /\ i' = 0
    /\ pc' = "drain"
    /\ pass_start' = waiting_objects'
    /\ attempted' = << >>
    /\ UNCHANGED <<policy_vars, cluster_state, pods, emitted, bind_log, last_step,
                   probe_vars, snap_vars>>

\* a pass that goes on until the deque is empty instead of num_waiting times
NextIterationUntilEmpty ==
    /\ i' = i + 1
    /\ pc' = IF waiting_objects' # << >> THEN "drain" ELSE "watch"

\* the end of one iteration of `for i in range(0, num_waiting)'
NextIteration ==
    /\ i' = i + 1
    /\ pc' = IF i + 1 < num_waiting THEN "drain" ELSE "watch"

\* a pass that returns an event that fails the test to the deque
IgnoreEventRequeues(event) ==
    /\ ~Eligible(event)
    /\ waiting_objects' = Append(Tail(waiting_objects), event)
    /\ last_step' = [op |-> "ignored", event |-> event, alloc |-> NotCalled, bind |-> ""]
    /\ NextIteration
    /\ UNCHANGED <<pods, bind_log>>

\* an event that fails the test is dropped
IgnoreEvent(event) ==
    /\ ~Eligible(event)
    /\ waiting_objects' = Tail(waiting_objects)
    /\ last_step' = [op |-> "ignored", event |-> event, alloc |-> NotCalled, bind |-> ""]
    /\ NextIteration
    /\ UNCHANGED <<pods, bind_log>>

\* a process_event that returns None when get_allocation raises
PlacementFailsDropsEvent(event, alloc) ==
    /\ alloc.kind = "raise"
    /\ waiting_objects' = Tail(waiting_objects)
    /\ last_step' = [op |-> "process_event", event |-> event, alloc |-> alloc, bind |-> ""]
    /\ NextIteration
    /\ UNCHANGED <<pods, bind_log>>

\* process_event when get_allocation raises: the event is returned and run
\* appends it
PlacementFails(event, alloc) ==
    /\ alloc.kind = "raise"
    /\ waiting_objects' = Append(Tail(waiting_objects), event)
    /\ last_step' = [op |-> "process_event", event |-> event, alloc |-> alloc, bind |-> ""]
    /\ NextIteration
    /\ UNCHANGED <<pods, bind_log>>

\* process_event when get_allocation returns a node: the binding request
Bind(event, alloc, outcome) ==
    /\ alloc.kind = "return"
    /\ bind_log' = Append(bind_log, [pod |-> event.pod, node |-> alloc.val,
                                     outcome |-> outcome, seq |-> event.seq])
    /\ pods' = IF outcome \in Accepted
               THEN [pods EXCEPT ![event.pod].node_name = alloc.val]
               ELSE pods
    /\ waiting_objects' = Tail(waiting_objects)
    /\ last_step' = [op |-> "process_event", event |-> event, alloc |-> alloc,
                     bind |-> outcome]
    /\ IF AfterBind(outcome) = "ok"
       THEN NextIteration
       ELSE pc' = "crashed" /\ i' = i

\* one iteration of the pass: popleft, test, process_event, append
DrainStep ==
    /\ pc = "drain"
    /\ LET event == Head(waiting_objects)
       IN  /\ attempted' = Append(attempted, event)
           /\ \/ IgnoreEvent(event)
              \/ /\ Eligible(event)
                 /\ \E alloc \in GetAllocation(event.pod) :
                       \/ PlacementFails(event, alloc)
                       \/ \E outcome \in BindOutcomes(event.pod) :
                             Bind(event, alloc, outcome)
    /\ UNCHANGED <<policy_vars, cluster_state, num_waiting, stream, emitted,
                   pass_start, probe_vars, snap_vars>>

Init ==
    /\ policy_kind \in {"random", "binpack"}
    /\ binpacking_resource = "cpu"
    /\ cluster_state = NoClusterState
    /\ pc = "wait_cluster_state"
    /\ waiting_objects = << >>
    /\ num_waiting = 0
    /\ i = 0
    /\ pods = [p \in PodNames |-> Absent]
    /\ stream = << >>
    /\ emitted = 0
    /\ bind_log = << >>
    /\ last_step = NoStep
    /\ pass_start = << >>
    /\ attempted = << >>
    /\ arg_pod = [has_requests |-> FALSE, requests |-> << >>]
    /\ result = NotCalled
    /\ SnapshotUnused
    /\ PollUnused

Next ==
    \/ ApiServer
    \/ UpdaterCycle
    \/ WaitForClusterState
    \/ ReceiveEvent
    \/ DrainStep

Spec == Init /\ [][Next]_vars

\* Both threads keep running: the updater polls in a `while True' loop and
\* the core blocks only in the wait for the first snapshot and in the watch
\* stream, so each takes its next step when it has one.
Fairness ==
    /\ WF_vars(UpdaterCycle)
    /\ WF_vars(WaitForClusterState)
    /\ WF_vars(ReceiveEvent)
    /\ WF_vars(DrainStep)

SpecLive == Spec /\ Fairness

(***************************************************************************)
(* SpecSnapshot: the updater thread and one placement decision at the      *)
(* grain of single reads and writes of dict objects.                       *)
(***************************************************************************)
\* number of polling cycles in a run
MaxCycles == 3

\* a dict object: its keys in insertion order, its values, and (history) the
\* cycle that wrote each value
EmptyDict == [order |-> << >>, res |-> << >>, tag |-> << >>]

\* d[node] = entry, written by cycle c
DictSet(d, node, entry, c) ==
    [order |-> IF node \in NodeSet(d.order) THEN d.order ELSE Append(d.order, node),
     res |-> [n \in NodeSet(d.order) \cup {node} |-> IF n = node THEN entry ELSE d.res[n]],
     tag |-> [n \in NodeSet(d.order) \cup {node} |-> IF n = node THEN c ELSE d.tag[n]]]

\* a cycle that fills the dict the scheduler already holds
SharedDict ==
    IF ref = 0 THEN [id |-> Len(heap) + 1, heap |-> Append(heap, EmptyDict)]
    ELSE [id |-> ref, heap |-> heap]

\* available_resources = {}: every cycle fills a new dict object
NewDict == [id |-> Len(heap) + 1, heap |-> Append(heap, EmptyDict)]

\* the pods that come and go while the updater polls
ChangingPods == {"p1", "p2"}

\* the cluster changes under the updater: a pod starts running on a node, or
\* a running pod goes
ClusterChanges ==
    /\ \E p \in ChangingPods :
          \/ /\ pods[p].phase = "Absent"
             /\ \E n \in Nodes : pods' = [pods EXCEPT ![p] = [phase |-> "Running", node_name |-> n]]
          \/ /\ pods[p].phase = "Running"
             /\ pods' = [pods EXCEPT ![p].phase = "Deleted"]
    /\ UNCHANGED <<policy_vars, cluster_state, loop_vars, stream, emitted, history_vars,
                   probe_vars, snap_vars>>

\* get_cluster_state: the two list calls and the new dict
UpdaterList ==
    /\ upd.pc = "list"
    /\ upd.cycle < MaxCycles
    /\ listings' = Append(listings, pods)
    /\ heap' = NewDict.heap
    /\ upd' = [pc |-> "build", dict |-> NewDict.id, idx |-> 1, cycle |-> upd.cycle + 1]
    /\ UNCHANGED <<policy_vars, cluster_state, loop_vars, api_vars, history_vars,
                   probe_vars, poll_vars, ref, decision>>

\* get_cluster_state: one iteration of `for node in nodes'
UpdaterNode ==
    /\ upd.pc = "build"
    /\ upd.idx <= Len(NodeList)
    /\ heap' = [heap EXCEPT ![upd.dict] =
                   DictSet(@, NodeList[upd.idx],
                           NodeEntry(NodeList[upd.idx], listings[upd.cycle]), upd.cycle)]
    /\ upd' = [upd EXCEPT !.idx = @ + 1]
    /\ UNCHANGED <<policy_vars, cluster_state, loop_vars, api_vars, history_vars,
                   probe_vars, poll_vars, ref, decision,
                   listings>>

\* return available_resources; set_cluster_state: self.cluster_state = ...
UpdaterPublish ==
    /\ upd.pc = "build"
    /\ upd.idx > Len(NodeList)
    /\ ref' = upd.dict
    /\ upd' = [upd EXCEPT !.pc = "list"]
    /\ UNCHANGED <<policy_vars, cluster_state, loop_vars, api_vars, history_vars,
                   probe_vars, poll_vars, heap, decision,
                   listings>>

\* process_event reads self.cluster_state once and hands it to get_allocation
\* (run has waited until it is not None)
DecisionStart ==
    /\ decision.pc \in {"idle", "done"}
    /\ ref # 0
    /\ decision' = [pc |-> "iterate", ref |-> ref, pos |-> 1, seen |-> << >>]
    /\ UNCHANGED <<policy_vars, cluster_state, loop_vars, api_vars, history_vars,
                   probe_vars, poll_vars, heap, ref, upd,
                   listings>>

\* get_allocation: one iteration of `for node, resources in
\* cluster_state.items()'
DecisionRead ==
    /\ decision.pc = "iterate"
    /\ decision.pos <= Len(heap[decision.ref].order)
    /\ LET d == heap[decision.ref]
           node == d.order[decision.pos]
       IN  decision' = [decision EXCEPT
                           !.pos = @ + 1,
                           !.seen = Append(@, [node |-> node, entry |-> d.res[node],
                                               tag |-> d.tag[node]])]
    /\ UNCHANGED <<policy_vars, cluster_state, loop_vars, api_vars, history_vars,
                   probe_vars, poll_vars, heap, ref, upd,
                   listings>>

\* get_allocation: the loop is over
DecisionEnd ==
    /\ decision.pc = "iterate"
    /\ decision.pos > Len(heap[decision.ref].order)
    /\ decision' = [decision EXCEPT !.pc = "done"]
    /\ UNCHANGED <<policy_vars, cluster_state, loop_vars, api_vars, history_vars,
                   probe_vars, poll_vars, heap, ref, upd,
                   listings>>

SnapshotInit ==
    /\ policy_kind = "binpack"
    /\ binpacking_resource = "cpu"
    /\ cluster_state = NoClusterState
    /\ pc = "snapshot"
    /\ waiting_objects = << >>
    /\ num_waiting = 0
    /\ i = 0
    /\ pods = [p \in PodNames |-> Absent]
    /\ stream = << >>
    /\ emitted = 0
    /\ bind_log = << >>
    /\ last_step = NoStep
    /\ pass_start = << >>
    /\ attempted = << >>
    /\ arg_pod = [has_requests |-> FALSE, requests |-> << >>]
    /\ result = NotCalled
    /\ SnapshotUnused
    /\ PollUnused

SnapshotNext ==
    \/ ClusterChanges
    \/ UpdaterList
    \/ UpdaterNode
    \/ UpdaterPublish
    \/ DecisionStart
    \/ DecisionRead
    \/ DecisionEnd

SpecSnapshot == SnapshotInit /\ [][SnapshotNext]_vars

(***************************************************************************)
(* SpecUpdater: ClusterStateUpdater.get_cluster_state on node and pod       *)
(* objects that carry quantity strings, one node per step.  A string is a   *)
(* sequence of characters.  Quantities are kept exact: cpu in thousandths   *)
(* of a core and memory in bytes (the code's megabytes times 2^20).         *)
(***************************************************************************)
Digits == {"0", "1", "2", "3", "4", "5", "6", "7", "8", "9"}

DigitValue(c) ==
    CASE c = "0" -> 0 [] c = "1" -> 1 [] c = "2" -> 2 [] c = "3" -> 3 [] c = "4" -> 4
      [] c = "5" -> 5 [] c = "6" -> 6 [] c = "7" -> 7 [] c = "8" -> 8 [] c = "9" -> 9

\* re.search(r'\d+', resource_str) finds something
HasDigits(resource_str) == \E k \in DOMAIN resource_str : resource_str[k] \in Digits

\* re.search(r'\d+', resource_str).group(): the first longest run of digits
FirstRun(resource_str) ==
    LET a == CHOOSE k \in DOMAIN resource_str :
                 /\ resource_str[k] \in Digits
                 /\ \A j \in 1 .. (k - 1) : resource_str[j] \notin Digits
        b == CHOOSE e \in a .. Len(resource_str) :
                 /\ \A j \in a .. e : resource_str[j] \in Digits
                 /\ (e = Len(resource_str) \/ resource_str[e + 1] \notin Digits)
    IN  SubSeq(resource_str, a, b)

\* float(value) and int(value) of a run of digits
RECURSIVE DigitsToNat(_)
DigitsToNat(value) ==
    IF value = << >> THEN 0
    ELSE 10 * DigitsToNat(SubSeq(value, 1, Len(value) - 1)) + DigitValue(value[Len(value)])

\* resource_str[len(value):]
UnitOf(resource_str, value) == SubSeq(resource_str, Len(value) + 1, Len(resource_str))

ParseOk(v) == [ok |-> TRUE, val |-> v]

\* .group() on None raises AttributeError; int() raises ValueError
ParseFails == [ok |-> FALSE, val |-> 0]

\* thousandths in a core
MilliPerCore == 1000

\* parse_resource_cpu, in thousandths of a core: unit_map = {'m': 1e-3,
\* 'K': 1e3}, any other unit counts as 1
parse_resource_cpu(resource_str) ==
    IF ~HasDigits(resource_str) THEN ParseFails
    ELSE LET value == FirstRun(resource_str)
             unit == UnitOf(resource_str, value)
         IN  ParseOk(IF unit = <<"m">> THEN DigitsToNat(value)
                     ELSE IF unit = <<"K">> THEN DigitsToNat(value) * 1000 * MilliPerCore
                     ELSE DigitsToNat(value) * MilliPerCore)

\* the exponent of two of unit_map = {'Ki': 2 ** 10, 'Mi': 2 ** 20,
\* 'Gi': 2 ** 30, 'Ti': 2 ** 40}, any other unit counts as 1
MemoryUnitExponent(unit) ==
    IF unit = <<"K", "i">> THEN 10
    ELSE IF unit = <<"M", "i">> THEN 20
    ELSE IF unit = <<"G", "i">> THEN 30
    ELSE IF unit = <<"T", "i">> THEN 40
    ELSE 0

\* parse_resource_memory, in bytes (the code divides by 2 ** 20)
parse_resource_memory(resource_str) ==
    IF ~HasDigits(resource_str) THEN ParseFails
    ELSE LET value == FirstRun(resource_str)
             unit == UnitOf(resource_str, value)
         IN  ParseOk(DigitsToNat(value) * 2 ^ MemoryUnitExponent(unit))

\* int(d.get(key, 0)) of a dict of strings
IntOfGet(d, key) ==
    IF key \notin DOMAIN d THEN ParseOk(0)
    ELSE IF d[key] # << >> /\ \A k \in DOMAIN d[key] : d[key][k] \in Digits
    THEN ParseOk(DigitsToNat(d[key]))
    ELSE ParseFails

\* d.get(key, default)
GetOr(d, key, default) == IF key \in DOMAIN d THEN d[key] ELSE default

NoneUsed == [ok |-> TRUE, cpu |-> 0, memory |-> 0, gpu |-> 0]

Plus(a, b) ==
    [ok |-> a.ok /\ b.ok, cpu |-> a.cpu + b.cpu, memory |-> a.memory + b.memory,
     gpu |-> a.gpu + b.gpu]

\* what one container adds to used_cpu, used_memory and used_gpu
ContainerUsed(container) ==
    IF ~(container.has_requests /\ DOMAIN container.requests # {}) THEN NoneUsed
    ELSE LET c == parse_resource_cpu(GetOr(container.requests, "cpu", <<"0", "m">>))
             m == parse_resource_memory(GetOr(container.requests, "memory", <<"0", "M", "i">>))
             g == IntOfGet(container.requests, "nvidia.com/gpu")
         IN  [ok |-> c.ok /\ m.ok /\ g.ok, cpu |-> c.val, memory |-> m.val, gpu |-> g.val]

RECURSIVE ContainersUsed(_)
ContainersUsed(containers) ==
    IF containers = << >> THEN NoneUsed
    ELSE Plus(ContainerUsed(Head(containers)), ContainersUsed(Tail(containers)))

\* a test on the namespace the scheduler was configured with
CountsOnConfigured(pod, name) ==
    /\ pod.node_name = name
    /\ pod.phase \in {"Running", "Pending"}
    /\ pod.namespace = namespace

\* the test of get_cluster_state on a pod
CountsOn(pod, name) ==
    /\ pod.node_name = name
    /\ pod.phase \in {"Running", "Pending"}
    /\ pod.namespace = "default"

\* `for pod in pods' for the node called name
RECURSIVE PodsUsed(_, _)
PodsUsed(podlist, name) ==
    IF podlist = << >> THEN NoneUsed
    ELSE Plus(IF CountsOn(Head(podlist), name)
              THEN ContainersUsed(Head(podlist).containers) ELSE NoneUsed,
              PodsUsed(Tail(podlist), name))

\* one iteration of `for node in nodes': the entry of the node, or the
\* exception a parse raises
AvailableOf(node, podlist) ==
    LET total_cpu == parse_resource_cpu(node.allocatable["cpu"])
        total_memory == parse_resource_memory(node.allocatable["memory"])
        total_gpu == IntOfGet(node.allocatable, "nvidia.com/gpu")
        used == PodsUsed(podlist, node.name)
    IN  [ok |-> total_cpu.ok /\ total_memory.ok /\ total_gpu.ok /\ used.ok,
         entry |-> [cpu |-> total_cpu.val - used.cpu,
                    memory |-> total_memory.val - used.memory,
                    gpu |-> total_gpu.val - used.gpu]]

\* the namespaces of the cluster
Namespaces == {"default", "team-a"}

\* the resources of a container: no requests, cpu only, all three, and a
\* memory request that has no digits
ContainerObjects ==
    {[has_requests |-> FALSE, requests |-> << >>],
     [has_requests |-> TRUE, requests |-> ("cpu" :> <<"5", "0", "0", "m">>)],
     [has_requests |-> TRUE,
      requests |-> ("cpu" :> <<"1">> @@ "memory" :> <<"1", "M", "i">>
                    @@ "nvidia.com/gpu" :> <<"1">>)],
     [has_requests |-> TRUE, requests |-> ("memory" :> <<"M", "i">>)]}

\* the first pod of the listing: one container, on any node, in any phase
\* and namespace
FirstPodObjects ==
    {[node_name |-> n, phase |-> ph, namespace |-> ns, containers |-> <<c>>] :
        n \in Nodes, ph \in {"Running", "Pending", "Succeeded"}, ns \in Namespaces,
        c \in ContainerObjects}

\* the second pod: two containers, running
SecondPodObjects ==
    {[node_name |-> n, phase |-> "Running", namespace |-> ns,
      containers |-> <<[has_requests |-> TRUE,
                        requests |-> ("cpu" :> <<"5", "0", "0", "m">>)],
                       [has_requests |-> TRUE,
                        requests |-> ("cpu" :> <<"1">> @@ "memory" :> <<"2", "K", "i">>)]>>] :
        n \in Nodes, ns \in Namespaces}

\* list_node: n1 reports gpus, n2 does not; the memory of n2 may be a string
\* without digits
NodeObjects ==
    {<<[name |-> "n1",
        allocatable |-> ("cpu" :> <<"2">> @@ "memory" :> <<"2", "M", "i">>
                         @@ "nvidia.com/gpu" :> <<"1">>)],
       [name |-> "n2", allocatable |-> ("cpu" :> <<"1">> @@ "memory" :> m)]>> :
        m \in {<<"1", "M", "i">>, <<"M", "i">>}}

ApiStates ==
    {[nodes |-> nl, pods |-> <<a, b>>] :
        nl \in NodeObjects, a \in FirstPodObjects, b \in SecondPodObjects}

\* the cluster changes once between two polling cycles: the first pod moves,
\* changes phase, namespace or requests, or a node reports another capacity
ApiChanges ==
    /\ poll.pc = "list"
    /\ poll.cycle \in 1 .. (MaxCycles - 1)
    /\ api = poll.listed
    /\ \/ \E n \in Nodes : api' = [api EXCEPT !.pods[1].node_name = n]
       \/ \E ph \in {"Running", "Pending", "Succeeded"} :
              api' = [api EXCEPT !.pods[1].phase = ph]
       \/ \E ns \in Namespaces : api' = [api EXCEPT !.pods[1].namespace = ns]
       \/ \E c \in ContainerObjects : api' = [api EXCEPT !.pods[1].containers = <<c>>]
       \/ \E nl \in NodeObjects : api' = [api EXCEPT !.nodes = nl]
    /\ api' # api
    /\ UNCHANGED <<policy_vars, cluster_state, loop_vars, api_vars, history_vars,
                   probe_vars, heap, ref, upd, decision, listings, namespace, poll>>

\* get_cluster_state: the two list calls and available_resources = {}
PollList ==
    /\ poll.pc = "list"
    /\ poll.cycle < MaxCycles
    /\ poll' = [poll EXCEPT !.pc = "build", !.idx = 1, !.cycle = @ + 1,
                            !.listed = api,
                            !.available_resources = [order |-> << >>, res |-> << >>],
                            !.before = cluster_state]
    /\ UNCHANGED <<policy_vars, cluster_state, loop_vars, api_vars, history_vars,
                   probe_vars, heap, ref, upd, decision, listings, namespace, api>>

\* a cycle that publishes what it has when a parse raises
PollNodePublishingPartial ==
    /\ poll.pc = "build"
    /\ poll.idx <= Len(poll.listed.nodes)
    /\ LET node == poll.listed.nodes[poll.idx]
           a == AvailableOf(node, poll.listed.pods)
           d == poll.available_resources
       IN  IF a.ok
           THEN /\ poll' = [poll EXCEPT
                               !.idx = @ + 1,
                               !.available_resources =
                                   [order |-> Append(d.order, node.name),
                                    res |-> [n \in NodeSet(d.order) \cup {node.name} |->
                                                IF n = node.name THEN a.entry ELSE d.res[n]]]]
                /\ UNCHANGED cluster_state
           ELSE /\ poll' = [poll EXCEPT !.pc = "stopped"]
                /\ cluster_state' = [none |-> FALSE, order |-> d.order, res |-> d.res]
    /\ UNCHANGED <<policy_vars, loop_vars, api_vars, history_vars,
                   probe_vars, heap, ref, upd, decision, listings, namespace, api>>

\* get_cluster_state: one iteration of `for node in nodes'; an exception of a
\* parse leaves get_cluster_state and ClusterStateUpdater.run, and the thread
\* ends
PollNode ==
    /\ poll.pc = "build"
    /\ poll.idx <= Len(poll.listed.nodes)
    /\ LET node == poll.listed.nodes[poll.idx]
           a == AvailableOf(node, poll.listed.pods)
           d == poll.available_resources
       IN  IF a.ok
           THEN poll' = [poll EXCEPT
                            !.idx = @ + 1,
                            !.available_resources =
                                [order |-> Append(d.order, node.name),
                                 res |-> [n \in NodeSet(d.order) \cup {node.name} |->
                                             IF n = node.name THEN a.entry ELSE d.res[n]]]]
           ELSE poll' = [poll EXCEPT !.pc = "stopped"]
    /\ UNCHANGED cluster_state
    /\ UNCHANGED <<policy_vars, loop_vars, api_vars, history_vars,
                   probe_vars, heap, ref, upd, decision, listings, namespace, api>>

\* return available_resources; set_cluster_state
PollPublish ==
    /\ poll.pc = "build"
    /\ poll.idx > Len(poll.listed.nodes)
    /\ cluster_state' = [none |-> FALSE, order |-> poll.available_resources.order,
                         res |-> poll.available_resources.res]
    /\ poll' = [poll EXCEPT !.pc = "list", !.published = poll.listed]
    /\ UNCHANGED <<policy_vars, loop_vars, api_vars, history_vars,
                   probe_vars, heap, ref, upd, decision, listings, namespace, api>>

UpdaterInit ==
    /\ policy_kind = "binpack"
    /\ binpacking_resource = "cpu"
    /\ cluster_state = NoClusterState
    /\ pc = "updater"
    /\ waiting_objects = << >>
    /\ num_waiting = 0
    /\ i = 0
    /\ pods = [p \in PodNames |-> Absent]
    /\ stream = << >>
    /\ emitted = 0
    /\ bind_log = << >>
    /\ last_step = NoStep
    /\ pass_start = << >>
    /\ attempted = << >>
    /\ arg_pod = [has_requests |-> FALSE, requests |-> << >>]
    /\ result = NotCalled
    /\ heap = << >> /\ ref = 0 /\ upd = UpdaterIdle
    /\ decision = NoDecision /\ listings = << >>
    /\ namespace \in Namespaces
    /\ api \in ApiStates
    /\ poll = PollIdle

UpdaterNext ==
    \/ ApiChanges
    \/ PollList
    \/ PollNode
    \/ PollPublish

SpecUpdater == UpdaterInit /\ [][UpdaterNext]_vars

(***************************************************************************)
(* Claims about BestfitBinpackPolicy.get_allocation (under SpecPolicy).    *)
(***************************************************************************)
Called == result # NotCalled

Returned == result.kind = "return"

\* every requested quantity is a number (float() accepts it)
NumericRequests == \A k \in DOMAIN arg_pod.requests : FloatOk(arg_pod.requests[k])

\* The available quantity of a node on a requested dimension is the value of
\* the node's entry under the request's key, 0 when the entry has no such key.
Available(node, key) == Get(cluster_state.res[node], key, 0)

\* feasibility of a node for the pod: available >= requested on every
\* dimension the pod requests
Feasible(node) ==
    \A k \in DOMAIN arg_pod.requests : Available(node, k) >= Float(arg_pod.requests[k])

SnapshotNodes == NodeSet(cluster_state.order)

\* the pod has a request the decision can use: the configured dimension or cpu
UsableRequest ==
    /\ arg_pod.has_requests
    /\ (binpacking_resource \in DOMAIN arg_pod.requests \/ "cpu" \in DOMAIN arg_pod.requests)

\* the dimension the decision binpacks on
DecisionDim ==
    IF binpacking_resource \in DOMAIN arg_pod.requests THEN binpacking_resource ELSE "cpu"

Remaining(node) == Available(node, DecisionDim) - Float(arg_pod.requests[DecisionDim])

Index(node) == CHOOSE k \in DOMAIN cluster_state.order : cluster_state.order[k] = node

\* C5: whenever get_allocation returns a node, the node is one of the
\* snapshot and its available quantity is >= the pod's requested quantity
\* on every resource dimension the pod requests.
C5_ReturnedNodeFeasible ==
    Returned => /\ result.val \in SnapshotNodes
                /\ NumericRequests
                /\ Feasible(result.val)

\* a node was returned for a pod requesting two dimensions while another
\* node of the snapshot lacks capacity on the second one only
C5_Witness ==
    /\ Returned
    /\ {"cpu", "memory"} \subseteq DOMAIN arg_pod.requests
    /\ \A k \in DOMAIN arg_pod.requests : Float(arg_pod.requests[k]) >= 1
    /\ \E m \in SnapshotNodes :
          /\ Available(m, "cpu") >= Float(arg_pod.requests["cpu"])
          /\ Available(m, "memory") < Float(arg_pod.requests["memory"])

\* C6: the returned node is feasible, has a non-negative remainder
\* (available - requested) on the dimension used for the decision, no
\* feasible node has a smaller non-negative remainder, and among the feasible
\* nodes with that same remainder it is the first in iteration order; and a
\* node is returned whenever some node is feasible and the entries carry the
\* decision's key.
C6_BestFitFirstOnTies ==
    /\ Returned =>
          /\ Feasible(result.val)
          /\ Remaining(result.val) >= 0
          /\ \A m \in SnapshotNodes :
                (Feasible(m) /\ Remaining(m) >= 0) =>
                    \/ Remaining(result.val) < Remaining(m)
                    \/ /\ Remaining(result.val) = Remaining(m)
                       /\ Index(result.val) <= Index(m)
    /\ (/\ Called
        /\ UsableRequest
        /\ NumericRequests
        /\ \E m \in SnapshotNodes :
              Feasible(m) /\ DecisionDim \in DOMAIN cluster_state.res[m])
            => Returned

\* two feasible nodes tie on a positive remainder of a positive request and
\* the first one was returned
C6_Witness ==
    /\ Returned
    /\ Len(cluster_state.order) = 2
    /\ Float(arg_pod.requests[DecisionDim]) >= 1
    /\ Remaining(result.val) >= 1
    /\ \A m \in SnapshotNodes : Feasible(m) /\ Remaining(m) = Remaining(result.val)
    /\ result.val = cluster_state.order[1]

\* C7: for a pod that does not request the configured binpacking dimension,
\* get_allocation gives what a policy configured for cpu gives if the pod
\* requests cpu, and otherwise raises 'Pod does not have a resource request
\* for cpu' (also for a pod with no resource requests at all).
C7_FallbackToCpu ==
    (Called /\ binpacking_resource \notin DOMAIN arg_pod.requests) =>
        IF "cpu" \in DOMAIN arg_pod.requests
        THEN result = BestfitGetAllocation("cpu", cluster_state, arg_pod)
        ELSE result = Raise(ErrNoCpu)

C9_NoNegativeDimension ==
    Returned =>
        \A k \in DOMAIN cluster_state.res[result.val] :
            cluster_state.res[result.val][k] >= 0

\* C9 amended: get_allocation never returns a node whose available quantity
\* is negative under a resource key the pod requests or under the key used
\* for binpacking.
C9_NoNegativeRequestedDimension ==
    Returned =>
        \A k \in DOMAIN arg_pod.requests \cup {DecisionDim} :
            Available(result.val, k) >= 0

\* a node that is negative on a requested dimension was passed over, and the
\* returned node is negative on a dimension the pod does not request
C9_Witness ==
    /\ Returned
    /\ \A k \in DOMAIN arg_pod.requests : Float(arg_pod.requests[k]) >= 1
    /\ \E m \in SnapshotNodes, k \in DOMAIN arg_pod.requests : Available(m, k) < 0
    /\ \E k \in DOMAIN cluster_state.res[result.val] :
          k \notin DOMAIN arg_pod.requests /\ cluster_state.res[result.val][k] < 0

\* the key under which ClusterStateUpdater publishes the dimension that a
\* pod requests under request_key: 'cpu', 'memory', and 'gpu' for the
\* request key 'nvidia.com/gpu'
SnapshotKey(request_key) == IF request_key = "nvidia.com/gpu" THEN "gpu" ELSE request_key

\* the snapshot has the form the updater publishes
UpdaterForm ==
    /\ ~cluster_state.none
    /\ \A m \in SnapshotNodes : DOMAIN cluster_state.res[m] = UpdaterKeys

\* the pod requests at least one GPU, and the decision has a request to use
RequestsGpu ==
    /\ UsableRequest
    /\ NumericRequests
    /\ "nvidia.com/gpu" \in DOMAIN arg_pod.requests
    /\ Float(arg_pod.requests["nvidia.com/gpu"]) >= 1

\* the node's published availability is >= the request on every dimension
\* the pod requests
FitsEveryDimension(node) ==
    \A k \in DOMAIN arg_pod.requests :
        cluster_state.res[node][SnapshotKey(k)] >= Float(arg_pod.requests[k])

\* C21: for a snapshot in the updater's form and a pod that requests GPUs,
\* whenever some node has enough on every dimension the pod requests,
\* get_allocation returns such a node.
C21_GpuPodPlacedWhenNodeFits ==
    (/\ Called
     /\ UpdaterForm
     /\ RequestsGpu
     /\ \E m \in SnapshotNodes : FitsEveryDimension(m))
    => (Returned /\ FitsEveryDimension(result.val))

\* for such a snapshot and pod get_allocation never returns a node
C21_GpuPodNeverPlaced ==
    (Called /\ UpdaterForm /\ RequestsGpu) => ~Returned

(***************************************************************************)
(* Claims about the admission loop (under Spec).                           *)
(***************************************************************************)
IsPrefix(a, b) == Len(a) <= Len(b) /\ SubSeq(b, 1, Len(a)) = a

InQueue(event) == \E k \in DOMAIN waiting_objects : waiting_objects[k].seq = event.seq

\* the last step called the policy / issued a binding request
PolicyCalled == last_step.alloc # NotCalled

BindRequested == last_step.bind # ""

\* C1: a pass pops the entries that were in the queue when it started, in
\* order and each once: never more than the length read at the start, never
\* an entry re-enqueued during the pass, and exactly that many when the pass
\* ends (the loop is back at the stream), also when placements fail.
C1_DrainPassBounded ==
    /\ num_waiting = Len(pass_start)
    /\ Len(attempted) <= num_waiting
    /\ IsPrefix(attempted, pass_start)
    /\ \A a, b \in DOMAIN attempted : a # b => attempted[a].seq # attempted[b].seq
    /\ pc = "drain" => (i < num_waiting /\ Len(attempted) = i)
    /\ pc = "watch" => attempted = pass_start

\* a pass over three entries has ended, at least two placements of it failed
\* and the failed entries wait for the next pass
C1_Witness ==
    /\ pc = "watch"
    /\ Len(attempted) = 3
    /\ Len(waiting_objects) >= 2

\* C2: once a binding request for a pod has completed without an API error,
\* no further binding request is issued for that pod.
C2_NoDuplicateBinding ==
    \A a, b \in DOMAIN bind_log :
        (a < b /\ bind_log[a].pod = bind_log[b].pod) => bind_log[a].outcome \notin Accepted

\* C3: the policy is called and a binding is requested only for an event
\* whose pod object is Pending, has no node and names this scheduler; any
\* other event is dropped without either and is not in the queue when the
\* pass in which it arrived ends.
C3_EligibleObject(event) ==
    event.phase = "Pending" /\ event.node_name = "" /\ event.scheduler_name = SCHEDULER_NAME

C3_OnlyEligibleProcessed ==
    /\ (PolicyCalled \/ BindRequested) => C3_EligibleObject(last_step.event)
    /\ (last_step.op # "none" /\ ~C3_EligibleObject(last_step.event)) =>
          (last_step.op = "ignored" /\ ~InQueue(last_step.event))
    /\ pc = "watch" => \A k \in DOMAIN waiting_objects : C3_EligibleObject(waiting_objects[k])
    /\ \A k \in DOMAIN bind_log : PodTable[bind_log[k].pod].scheduler_name = SCHEDULER_NAME

\* an event of a pod that already has a node was dropped at the end of a pass
\* while an eligible event keeps waiting
C3_Witness ==
    /\ pc = "watch"
    /\ last_step.op = "ignored"
    /\ last_step.event.node_name # ""
    /\ last_step.event.scheduler_name = SCHEDULER_NAME
    /\ waiting_objects # << >>

\* C10: a placement failure or a binding API error while processing a queued
\* event does not end the admission loop, and after a binding API error the
\* event is not in the queue.
C10_ErrorsNeverEndTheLoop ==
    /\ last_step.alloc.kind = "raise" => pc # "crashed"
    /\ last_step.bind \in {"ApiException", "ApiException_nobody"} =>
          (pc # "crashed" /\ ~InQueue(last_step.event))

\* C11: when the policy raises for a popped eligible event, that step issues
\* no binding request and appends the same event to the tail of the queue;
\* an eligible event leaves the queue only in a step in which the policy
\* returned a node for it.
C11_FailedEventRequeued ==
    [][/\ (Len(attempted') = Len(attempted) + 1 /\ last_step'.alloc.kind = "raise") =>
              /\ last_step'.event = Head(waiting_objects)
              /\ bind_log' = bind_log
              /\ last_step'.bind = ""
              /\ waiting_objects' = Append(Tail(waiting_objects), Head(waiting_objects))
       /\ \A k \in DOMAIN waiting_objects :
              (/\ C3_EligibleObject(waiting_objects[k])
               /\ \A j \in DOMAIN waiting_objects' :
                      waiting_objects'[j].seq # waiting_objects[k].seq)
              => (/\ last_step'.event = waiting_objects[k]
                  /\ last_step'.alloc.kind = "return"
                  /\ Len(bind_log') = Len(bind_log) + 1)]_vars

\* a placement has failed and its event waits at the tail, behind another
\* entry
C11_Witness ==
    /\ last_step.alloc.kind = "raise"
    /\ Len(waiting_objects) >= 2
    /\ waiting_objects[Len(waiting_objects)] = last_step.event
    /\ bind_log = << >>

\* C12: events that wait are in the order in which they were received at
\* every pass boundary, and every pass attempts its entries in that order.
C12_FifoPreserved ==
    /\ pc = "watch" =>
          \A a, b \in DOMAIN waiting_objects :
              a < b => waiting_objects[a].seq < waiting_objects[b].seq
    /\ \A a, b \in DOMAIN attempted : a < b => attempted[a].seq < attempted[b].seq

\* two passes have each re-enqueued the entries that were waiting, and the
\* second has ended with at least two entries still waiting
C12_Witness ==
    /\ pc = "watch"
    /\ Len(attempted) >= 3
    /\ Len(waiting_objects) >= 2
    /\ last_step.alloc.kind = "raise"

\* C13 as stated: every entry of the queue is an eligible event in every
\* reachable state.
C13_QueueHoldsOnlyEligible ==
    \A k \in DOMAIN waiting_objects : C3_EligibleObject(waiting_objects[k])

\* C13 amended: every received event is appended; an entry that is not
\* eligible is the event whose arrival started the current pass, it is the
\* last one that pass pops, and no such entry is left at a pass boundary.
C13_IneligibleOnlyDuringItsPass ==
    /\ pc = "watch" => C13_QueueHoldsOnlyEligible
    /\ \A k \in DOMAIN waiting_objects :
          ~C3_EligibleObject(waiting_objects[k]) =>
              /\ pc \in {"drain", "crashed"}
              /\ waiting_objects[k] = pass_start[Len(pass_start)]
              /\ \A j \in DOMAIN attempted : attempted[j] # waiting_objects[k]

\* an event that is not eligible is in the queue while the pass it started
\* has already tried an older entry
C13_Witness ==
    /\ pc = "drain"
    /\ ~C13_QueueHoldsOnlyEligible
    /\ PolicyCalled
    /\ attempted # << >>
    /\ attempted[Len(attempted)] = last_step.event

\* C14: while the shared cluster state is unset the core is in its waiting
\* state: it has received no watch event, called no policy and requested no
\* binding.
C14_NoAttemptBeforeFirstSnapshot ==
    cluster_state.none =>
        /\ pc = "wait_cluster_state"
        /\ Len(stream) = emitted
        /\ waiting_objects = << >>
        /\ attempted = << >>
        /\ last_step = NoStep
        /\ bind_log = << >>

\* the core waits while eligible events are already there to be received
C14_Witness ==
    /\ cluster_state.none
    /\ pc = "wait_cluster_state"
    /\ Len(stream) >= 2
    /\ \E k \in DOMAIN stream : C3_EligibleObject(stream[k])

\* C17: a ValueError with the message about `target' is suppressed: the
\* event is not re-enqueued and the loop goes on; any other ValueError
\* leaves the binding operation.
C17_TargetValueErrorSuppressed ==
    /\ last_step.bind = "ValueError_target" =>
          (pc # "crashed" /\ ~InQueue(last_step.event))
    /\ last_step.bind = "ValueError_other" => pc = "crashed"

\* the suppressed error came in the middle of a pass, which goes on with the
\* entries that are left
C17_Witness ==
    /\ last_step.bind = "ValueError_target"
    /\ pc = "drain"
    /\ waiting_objects # << >>
    /\ attempted # << >>
    /\ attempted[Len(attempted)] = last_step.event

\* the pods this scheduler has bound to a node and that still count there
BoundByUs(node) ==
    {p \in CountedOn(node, pods) :
        \E k \in DOMAIN bind_log :
            /\ bind_log[k].pod = p
            /\ bind_log[k].node = node
            /\ bind_log[k].outcome \in Accepted}

\* C19: with BestfitBinpackPolicy, the cpu requested by the pods this
\* scheduler has bound to a node never exceeds the cpu of that node.
C19_NoOvercommit ==
    policy_kind = "binpack" =>
        \A n \in Nodes : UsedBy(BoundByUs(n), "cpu") <= Allocatable[n].cpu

\* C20: no step of a pass requests a binding for a pod for which the loop
\* has received a DELETED event (one that this pass started with).
C20_NoBindingAfterDeleted ==
    (/\ BindRequested
     /\ attempted # << >>
     /\ attempted[Len(attempted)] = last_step.event)
    => \A k \in DOMAIN pass_start :
           ~(pass_start[k].type = "DELETED" /\ pass_start[k].pod = last_step.event.pod)

\* the eligible event with sequence number s waits in the queue
Waiting(s) ==
    \E k \in DOMAIN waiting_objects :
        waiting_objects[k].seq = s /\ C3_EligibleObject(waiting_objects[k])

\* a pass has reached the event with sequence number s: it is the entry the
\* next step pops, and the step calls the policy for it and, when the policy
\* returns a node, issues the binding request
Reached(s) ==
    /\ pc = "drain"
    /\ waiting_objects # << >>
    /\ Head(waiting_objects).seq = s
    /\ \A j \in DOMAIN attempted : attempted[j].seq # s

\* C15 (under SpecLive): whenever an eligible event waits at a pass boundary
\* and the stream has another event to deliver, a pass reaches the waiting
\* event again.
C15_BacklogReattempted ==
    \A s \in 1 .. MaxEvents :
        (pc = "watch" /\ Waiting(s) /\ stream # << >>) ~> Reached(s)

\* the same, unless the admission loop has ended
C15_ReattemptedUnlessLoopEnded ==
    \A s \in 1 .. MaxEvents :
        (pc = "watch" /\ Waiting(s) /\ stream # << >>) ~> (Reached(s) \/ pc = "crashed")

(***************************************************************************)
(* Claims about get_cluster_state (under SpecUpdater).                     *)
(***************************************************************************)
\* the sum of what the containers request of the pods of podlist that are
\* assigned to the node, Running or Pending, and in the configured namespace
RECURSIVE Requested(_, _)
Requested(podlist, name) ==
    IF podlist = << >> THEN NoneUsed
    ELSE Plus(IF CountsOnConfigured(Head(podlist), name)
              THEN ContainersUsed(Head(podlist).containers) ELSE NoneUsed,
              Requested(Tail(podlist), name))

\* allocatable minus requested, for the pods assigned to the node, Running or
\* Pending, in the configured namespace
ExpectedAvailable(node, podlist) ==
    LET used == Requested(podlist, node.name)
    IN  [cpu |-> parse_resource_cpu(node.allocatable["cpu"]).val - used.cpu,
         memory |-> parse_resource_memory(node.allocatable["memory"]).val - used.memory,
         gpu |-> IntOfGet(node.allocatable, "nvidia.com/gpu").val - used.gpu]

\* C16: the published snapshot gives every node, in each dimension, its
\* allocatable quantity minus the requests of the containers of the pods
\* assigned to it that are Running or Pending and in the namespace the
\* scheduler is configured with, not clamped at zero.
C16_AvailableIsAllocatableMinusRequested ==
    ~cluster_state.none =>
        \A k \in DOMAIN poll.published.nodes :
            cluster_state.res[poll.published.nodes[k].name]
                = ExpectedAvailable(poll.published.nodes[k], poll.published.pods)

\* the same for the namespace 'default' only
C16_HoldsForDefaultNamespace ==
    namespace = "default" => C16_AvailableIsAllocatableMinusRequested

\* a string without digits is parsed in a cycle over this listing
MeetsNoDigits(listing) ==
    \E k \in DOMAIN listing.nodes :
        ~AvailableOf(listing.nodes[k], listing.pods).ok

\* C18: a cycle that meets a quantity string without digits publishes
\* nothing and ends the updater: the shared snapshot is what it was when the
\* cycle started, and what the core can see is unset or the complete result
\* of a cycle that met no such string.
C18_FailedCyclePublishesNothing ==
    /\ poll.pc = "stopped" =>
          (cluster_state = poll.before /\ MeetsNoDigits(poll.listed))
    /\ (poll.pc = "build" /\ MeetsNoDigits(poll.listed)) => cluster_state = poll.before
    /\ ~cluster_state.none =>
          /\ ~MeetsNoDigits(poll.published)
          /\ Len(cluster_state.order) = Len(poll.published.nodes)
          /\ \A k \in DOMAIN poll.published.nodes :
                /\ cluster_state.order[k] = poll.published.nodes[k].name
                /\ cluster_state.res[poll.published.nodes[k].name]
                      = AvailableOf(poll.published.nodes[k], poll.published.pods).entry

\* the updater has stopped in its second or a later cycle, after it had
\* filled the entry of the first node, and the core keeps the snapshot of
\* an earlier cycle
C18_Witness ==
    /\ poll.pc = "stopped"
    /\ ~cluster_state.none
    /\ poll.available_resources.order # << >>
    /\ poll.listed # poll.published

(***************************************************************************)
(* Claims about the shared snapshot (under SpecSnapshot).                  *)
(***************************************************************************)
\* the dict is the complete result of cycle c
CompleteResultOf(d, c) ==
    /\ d.order = NodeList
    /\ d.res = GetClusterState(listings[c]).res
    /\ \A n \in Nodes : d.tag[n] = c

\* what a decision that iterates over the complete result of cycle c has read
\* after k items
ReadOf(c, k) ==
    [j \in 1 .. k |-> [node |-> NodeList[j],
                       entry |-> GetClusterState(listings[c]).res[NodeList[j]],
                       tag |-> c]]

\* C4: the mapping the scheduler holds, and the mapping a placement decision
\* iterates over, is at every moment the complete result of exactly one
\* polling cycle: what the decision has read is a prefix of that one cycle's
\* items, and all of them when the decision ends.
C4_DecisionSeesOneCycle ==
    /\ \A id \in {ref, decision.ref} \ {0} :
          \E c \in 1 .. Len(listings) : CompleteResultOf(heap[id], c)
    /\ decision.pc # "idle" =>
          \E c \in 1 .. Len(listings) :
              /\ CompleteResultOf(heap[decision.ref], c)
              /\ decision.seen = ReadOf(c, Len(decision.seen))
              /\ decision.pc = "done" => Len(decision.seen) = Len(NodeList)

\* a decision has ended on an older mapping while the updater, which has
\* published a different one since, is in the middle of building a third
C4_Witness ==
    /\ decision.pc = "done"
    /\ decision.ref # ref
    /\ heap[decision.ref].res # heap[ref].res
    /\ upd.pc = "build"
    /\ upd.idx = 2
    /\ heap[upd.dict].res # << >>

====
